---- MODULE Spec2Model ----
(***************************************************************************)
(* Shopify <-> WhatsApp automation: the order-status handlers, the         *)
(* template dispatcher, the phone normaliser and the abandoned-checkout    *)
(* reminder job of the Firebase generation of the service                  *)
(* (src/unnamed/part_002).  Each webhook handler is one action; the        *)
(* outcome of every call to a remote service (WhatsApp provider, Shopify   *)
(* admin API) is an input of the action.  The fetch-based dispatcher of    *)
(* the previous generation (src/index.js) and the reminder job that calls  *)
(* it are modelled next to them.                                           *)
(***************************************************************************)
EXTENDS Integers, Sequences, FiniteSets, TLC

\* ------------------------------------------------------------------ bounds
MaxHours == 8
MaxPad == 11

\* the orders and checkouts that events can name (one order: the handlers
\* checked here act on one record at a time)
OrderIds == {1001}
CheckoutIds == {1, 2}

\* ------------------------------------------------------- program constants
REMINDER_AGE_MS == 60 * 60 * 1000
DEFAULT_COUNTRY_CODE == <<"9", "2">>
WHATSAPP_NUMBER_ID == "WHATSAPP_NUMBER_ID"

TPL_ORDER_CONFIRMATION == "order_confirmation"
TPL_ORDER_CONFIRMED_REPLY == "order_confirmed_reply"
TPL_ORDER_CANCELLED_REPLY_AUTO == "order_cancelled_reply_auto"
TPL_ORDER_DISPATCH_REMINDER == "order_dispatch_reminder"
TPL_DELIVERY_ATTEMPTED == "delivery_attempted"
TPL_FAILED_DELIVERY_FOLLOWUP == "failed_delivery_followup"
TPL_REDELIVERY_SCHEDULED == "redelivery_scheduled"
TPL_RETURN_INITIATED_CUST == "return_initiated_cust"
TPL_ORDER_DELIVERED == "order_delivered"
TPL_ABANDONED_CHECKOUT == "abandoned_checkout"
TPL_FEEDBACK_REQUEST == "request"
TPL_YOUR_ORDER_IS_SHIPPED == "your_order_is_shipped_2025"
TPL_CALL_US_TEMPLATE == "call_us_template"
TPL_ORDER_ALREADY_PROCESSED == "order_already_processed"

PAYLOAD_CONFIRM_ORDER == "CONFIRM_ORDER"
PAYLOAD_CANCEL_ORDER == "CANCEL_ORDER"
PAYLOAD_REDELIVER_TOMORROW == "REDELIVER_TOMORROW"

\* ------------------------------------------------------------- JS values
\* Strings that the code inspects character by character (phone numbers,
\* country codes) are sequences of one-character strings.
Null == <<"null">>
Undefined == <<"undefined">>
Falsy(v) == v \in {Null, Undefined, <<>>}

Digits == {"0", "1", "2", "3", "4", "5", "6", "7", "8", "9"}
IsDigit(c) == c \in Digits

\* String(raw).replace(/\D/g, "")
StripNonDigits(s) == SelectSeq(s, IsDigit)

\* String.prototype.startsWith
StartsWith(s, p) == Len(p) <= Len(s) /\ SubSeq(s, 1, Len(p)) = p

\* mutant of normalizePhone: the leading 0 is kept when the country code is
\* put in front
normalizePhone_keep0(raw, defaultCC) ==
  IF Falsy(raw) THEN Null
  ELSE LET digits == StripNonDigits(raw) IN
    IF digits = <<>> THEN Null
    ELSE IF StartsWith(digits, <<"0">>) /\ defaultCC # <<>> THEN defaultCC \o digits
    ELSE IF defaultCC # <<>> /\ StartsWith(digits, defaultCC) THEN digits
    ELSE IF defaultCC # <<>> /\ Len(digits) <= 10 THEN defaultCC \o digits
    ELSE digits

\* mutant of normalizePhone: the "already begins with the country code" test
\* is missing
normalizePhone_nocc(raw, defaultCC) ==
  IF Falsy(raw) THEN Null
  ELSE LET digits == StripNonDigits(raw) IN
    IF digits = <<>> THEN Null
    ELSE IF StartsWith(digits, <<"0">>) /\ defaultCC # <<>> THEN defaultCC \o Tail(digits)
    ELSE IF defaultCC # <<>> /\ Len(digits) <= 10 THEN defaultCC \o digits
    ELSE digits

normalizePhone(raw, defaultCC) ==
  IF Falsy(raw) THEN Null
  ELSE LET digits == StripNonDigits(raw) IN
    IF digits = <<>> THEN Null
    ELSE IF StartsWith(digits, <<"0">>) /\ defaultCC # <<>> THEN defaultCC \o Tail(digits)
    ELSE IF defaultCC # <<>> /\ StartsWith(digits, defaultCC) THEN digits
    ELSE IF defaultCC # <<>> /\ Len(digits) <= 10 THEN defaultCC \o digits
    ELSE digits

VARIABLES
  orders,     \* Firebase /orders: order id -> record (a JS object)
  checkouts,  \* Firebase /abandoned_checkouts: checkout id -> record
  now,        \* Date.now()
  out,        \* requests submitted to the WhatsApp provider by the last event
  notes,      \* Shopify order-note updates submitted by the last event
  resp,       \* res.sendStatus calls made by the last event
  settled,    \* history: orders whose stored status has been confirmed/cancelled
  sweepLog,   \* history: the last (at most two) successive runs of the reminder job
  ev          \* the event handled last: kind, trigger, order (or checkout), phone

VARIABLES nRaw, nCC, nOnce, nTwice, nPc

VARIABLES
  sPhone,     \* one call of the dispatcher: the recipient,
  sTemplate,  \* the template name,
  sAnswer,    \* the provider's answer to the request,
  sResult,    \* what the call gives its caller (a value, or an exception)
  sPc         \* "idle", or the dispatcher that was called

storeVars == <<orders, checkouts, now, out, notes, resp, settled, sweepLog, ev>>
normVars == <<nRaw, nCC, nOnce, nTwice, nPc>>
sendVars == <<sPhone, sTemplate, sAnswer, sResult, sPc>>

VARIABLES
  runs,       \* handler runs in flight, each between two of its awaits
  effects     \* history: what the runs in flight have done, in order

raceVars == <<runs, effects>>

VARIABLES
  recentOrders, \* the in-memory Map of the first generation: phone -> order id
  incoming      \* Firebase /whatsapp/incoming: timestamp -> message

memVars == <<recentOrders, incoming>>
\* what a handler that runs without interleaving leaves alone
pureVars == <<normVars, sendVars, raceVars, memVars>>
vars == <<orders, checkouts, now, out, notes, resp, settled, sweepLog, ev,
          nRaw, nCC, nOnce, nTwice, nPc, sPhone, sTemplate, sAnswer, sResult, sPc,
          runs, effects, recentOrders, incoming>>

\* ------------------------------------------------------ Firebase helpers
\* ref.set(data): the record is replaced
dbSet(store, key, data) ==
  [k \in DOMAIN store \cup {key} |-> IF k = key THEN data ELSE store[k]]

\* ref.update(data): the named children are overwritten, the rest is kept
dbUpdate(store, key, data) ==
  LET old == IF key \in DOMAIN store THEN store[key] ELSE <<>>
      merged == [f \in DOMAIN old \cup DOMAIN data |->
                   IF f \in DOMAIN data THEN data[f] ELSE old[f]]
  IN [k \in DOMAIN store \cup {key} |-> IF k = key THEN merged ELSE store[k]]


Has(rec, f) == f \in DOMAIN rec

\* ref.set(data) throws when a property of data is undefined; the phone is
\* the one property of a record that the payloads here can leave undefined
HasUndefined(data) == Has(data, "phone") /\ data.phone = Undefined
StatusOf(rec) == IF Has(rec, "status") THEN rec.status ELSE "undefined"

Max(S) == CHOOSE x \in S : \A y \in S : y <= x

\* orderByChild(child).equalTo(value).limitToLast(1): the matching record
\* with the greatest key
LastByChild(store, child, value) ==
  LET hits == {k \in DOMAIN store : Has(store[k], child) /\ store[k][child] = value}
  IN IF hits = {} THEN {} ELSE {Max(hits)}

\* ------------------------------------------------------------ dispatcher
Obj(o) == [kind |-> "object", v |-> o]
Arr(a) == [kind |-> "array", v |-> a]

\* the components that sendWhatsAppTemplate builds from params.body and
\* params.button (params.header is not used by any caller)
Components(params) ==
  LET isObj == params.kind = "object"
      body == IF isObj /\ Has(params.v, "body") THEN params.v.body ELSE <<>>
      button == IF isObj /\ Has(params.v, "button") THEN params.v.button ELSE <<>>
  IN [body |-> body, button |-> button]

\* the request of one sendWhatsAppTemplate call; ok is the provider's answer
\* (axios rejects on a non-2xx answer and the function rethrows)
Request(phone, templateName, params, ok) ==
  [to |-> phone, tpl |-> templateName,
   body |-> Components(params).body, button |-> Components(params).button,
   ok |-> ok]

\* an event: its kind, its trigger (button action or courier status), the
\* order or checkout it is about (0: none) and its normalised phone
Event(kind, trigger, id, phone) ==
  [kind |-> kind, trigger |-> trigger, id |-> id, phone |-> phone]

\* the provider's answer to one request: the HTTP status (0: the connection
\* failed, there is no answer) and whether the body parses as JSON
ProviderAnswers ==
  {a \in [status : {0, 200, 400, 401, 429, 500, 503}, json : BOOLEAN] :
     a.status = 0 => ~a.json}

Accepted(a) == a.status \in 200..299
Rejected(a) == a.status \in 400..599

Returned(value) == [threw |-> FALSE, value |-> value]
Thrown == [threw |-> TRUE, value |-> "err"]

\* axios.post rejects on a failed connection and on every status outside
\* 2xx; the catch logs and rethrows
sendWhatsAppTemplate(answer) ==
  IF Accepted(answer) THEN Returned("resp.data") ELSE Thrown

\* the fetch-based dispatcher of src/index.js: fetch rejects on a failed
\* connection, res.json() on a body that is not JSON; the catch logs and
\* rethrows.  A rejection with a JSON body is logged and its body returned.
sendWhatsAppTemplate_fetch(answer) ==
  IF answer.status = 0 \/ ~answer.json THEN Thrown
  ELSE IF Accepted(answer) THEN Returned("json")
  ELSE Returned("json.error")

NoteResults == {"ok", "rejected", "throw"}
Note(orderId, text, res) == [order |-> orderId, text |-> text, res |-> res]

ToUpperCase(s) ==
  CASE s = "confirmed" -> "CONFIRMED"
    [] s = "cancelled" -> "CANCELLED"
    [] s = "rescheduled" -> "RESCHEDULED"
    [] OTHER -> s

OrderName(o) == "#" \o ToString(o)

\* history of C1: the orders whose stored status is, or has been, confirmed
\* or cancelled
Settle(old, store) ==
  old \cup {o \in DOMAIN store : StatusOf(store[o]) \in {"confirmed", "cancelled"}}

\* ---------------------------------------------------------------- inputs
\* phones of an order payload: a local number, the same number in
\* international form, a string without digits, and no phone at all
OrderPhones == {<<"0", "3">>, <<"9", "2", "3">>, <<"-">>, Undefined}
\* WhatsApp sender (msg.from): the customer's number in international form
Senders == {<<"9", "2", "3">>}
\* customer.first_name of an order payload
FirstNames == {"Ali"}
ButtonActions == {PAYLOAD_CONFIRM_ORDER, PAYLOAD_CANCEL_ORDER,
                  PAYLOAD_REDELIVER_TOMORROW, "NEED_HELP"}
\* the part of a button payload after ":" : nothing, an order id, an order name
NoRef == [hash |-> FALSE, id |-> 0]
Refs == {NoRef} \cup [hash : BOOLEAN, id : OrderIds]
\* phones of the other payloads, which are normalised before use: present
\* or absent
EventPhones == {<<"9", "2", "3">>, Undefined}
\* provider answers to the (at most two) templates of one courier event
CourierAnswers == {<<TRUE, TRUE>>, <<FALSE, TRUE>>, <<TRUE, FALSE>>}
CourierStatuses == {"shipped", "attempted", "pending", "delivered",
                    "return_initiated", "dispatch_reminder", "lost"}

Field(rec, f, default) == IF Has(rec, f) THEN rec[f] ELSE default

\* ------------------------------------- POST /webhook/shopify/order
saveCODOrder_record(order, t) ==
  [f \in DOMAIN order \cup {"status", "createdAt"} |->
     IF f = "status" THEN "PENDING_COD"
     ELSE IF f = "createdAt" THEN t
     ELSE order[f]]

\* body and buttons of the order_confirmation template
sendOrderConfirmation_params(order) ==
  Obj([body |-> << Field(order, "customerName", "Customer"),
                   Field(order, "order_name", "-"),
                   Field(order, "product", "Product"),
                   ToString(Field(order, "qty", 1)),
                   Field(order, "storeName", "Silken Root"),
                   Field(order, "total", "0"),
                   Field(order, "currency", "PKR") >>,
       button |-> << [sub_type |-> "quick_reply",
                      value |-> PAYLOAD_CONFIRM_ORDER \o ":" \o ToString(order.id)],
                     [sub_type |-> "quick_reply",
                      value |-> PAYLOAD_CANCEL_ORDER \o ":" \o ToString(order.id)] >>])

\* mutant: the confirmation is sent without looking at the phone
sendOrderConfirmation_nocheck(order, waOk) ==
  <<Request(normalizePhone(order.phone, DEFAULT_COUNTRY_CODE), TPL_ORDER_CONFIRMATION,
            sendOrderConfirmation_params(order), waOk)>>

\* the requests of sendOrderConfirmation: none when the phone does not
\* normalise
sendOrderConfirmation(order, waOk) ==
  LET phone == normalizePhone(order.phone, DEFAULT_COUNTRY_CODE)
  IN IF phone = Null THEN <<>>
     ELSE <<Request(phone, TPL_ORDER_CONFIRMATION, sendOrderConfirmation_params(order), waOk)>>

ShopifyOrderCreated(o, rawPhone, firstName, detailsOk, waOk) ==
  LET order == [id |-> o,
                order_name |-> OrderName(o),
                customerName |-> IF firstName = "" THEN "Customer" ELSE firstName,
                phone |-> rawPhone,
                total |-> "500",
                currency |-> "PKR",
                product |-> "Widget",
                qty |-> 1]
      saved == saveCODOrder_record(order, now)
      reqs == sendOrderConfirmation(order, waOk)
  IN /\ notes' = <<>>
     /\ IF ~detailsOk \/ HasUndefined(saved)
        THEN \* getOrderDetails or ref.set throws: the catch answers 500
             /\ resp' = <<200, 500>>
             /\ out' = <<>>
             /\ orders' = orders
        ELSE /\ orders' = dbSet(orders, o, saved)
             /\ out' = reqs
             /\ resp' = IF reqs # <<>> /\ ~waOk THEN <<200, 500>> ELSE <<200>>
     /\ settled' = Settle(settled, orders')
     /\ ev' = Event("order_created", "", o, normalizePhone(rawPhone, DEFAULT_COUNTRY_CODE))
     /\ UNCHANGED <<checkouts, sweepLog, now, pureVars>>

\* ------------------------------------------- POST /webhook/whatsapp
\* the three lookups of the button branch, in the order the handler tries
\* them: order name ("#..."), order id, latest order of the sender's phone
whatsapp_byName(ref) ==
  IF ref.hash THEN LastByChild(orders, "order_name", OrderName(ref.id)) ELSE {}

whatsapp_byId(ref) ==
  IF ref # NoRef /\ ~ref.hash /\ ref.id \in DOMAIN orders THEN {ref.id} ELSE {}

whatsapp_found(phone, ref) ==
  IF ref.hash
  THEN whatsapp_byName(ref)      \* not found by name: the handler returns
  ELSE IF whatsapp_byId(ref) # {} THEN whatsapp_byId(ref)
       ELSE LastByChild(orders, "phone", phone)

whatsapp_isDuplicate(orderData) ==
  StatusOf(orderData) \in {"confirmed", "cancelled"}

\* what each case of the switch does: note text, template, body, new status
whatsapp_case(action, orderId, orderData) ==
  LET name == Field(orderData, "order_name", ToString(orderId))
  IN CASE action = PAYLOAD_CONFIRM_ORDER ->
            [known |-> TRUE, newStatus |-> "confirmed",
             note |-> "Confirmed via WhatsApp", tpl |-> TPL_ORDER_CONFIRMED_REPLY,
             body |-> <<Field(orderData, "customerName", "Customer"), name>>]
       [] action = PAYLOAD_CANCEL_ORDER ->
            [known |-> TRUE, newStatus |-> "cancelled",
             note |-> "Cancelled via WhatsApp", tpl |-> TPL_ORDER_CANCELLED_REPLY_AUTO,
             body |-> <<name>>]
       [] action = PAYLOAD_REDELIVER_TOMORROW ->
            [known |-> TRUE, newStatus |-> "redelivery",
             note |-> "Redelivery requested: Tomorrow 10am-6pm",
             tpl |-> TPL_REDELIVERY_SCHEDULED,
             body |-> <<name, "Tomorrow", "10am-6pm",
                        Field(orderData, "courier", "Courier"),
                        Field(orderData, "total", "0") \o " "
                          \o Field(orderData, "currency", "PKR")>>]
       [] OTHER ->
            [known |-> FALSE, newStatus |-> "action_" \o action,
             note |-> "", tpl |-> "", body |-> <<>>]

\* the button branch after the lookup; shared shape of both button handlers:
\* note update, reply template, then the status write
Button_run(phone, orderId, dup, dupRequest, c, noteRes, waOk) ==
  IF dup
  THEN /\ out' = <<dupRequest>>
       /\ notes' = <<>>
       /\ orders' = orders
  ELSE IF ~c.known
  THEN /\ out' = <<>>
       /\ notes' = <<>>
       /\ orders' = dbUpdate(orders, orderId, [status |-> c.newStatus, updatedAt |-> now])
  ELSE /\ notes' = <<Note(orderId, c.note, noteRes)>>
       /\ IF noteRes = "throw"
          THEN /\ out' = <<>>
               /\ orders' = orders
          ELSE /\ out' = <<Request(phone, c.tpl, Obj([body |-> c.body]), waOk)>>
               /\ orders' = IF waOk
                            THEN dbUpdate(orders, orderId,
                                          [status |-> c.newStatus, updatedAt |-> now])
                            ELSE orders

WhatsAppButton(from, action, ref, noteRes, waOk) ==
  LET phone == normalizePhone(from, DEFAULT_COUNTRY_CODE)
      found == whatsapp_found(phone, ref)
  IN /\ resp' = <<200>>
     /\ IF found = {}
        THEN /\ out' = <<>>
             /\ notes' = <<>>
             /\ orders' = orders
        ELSE LET orderId == CHOOSE x \in found : TRUE
                 orderData == orders[orderId]
                 status == StatusOf(orderData)
             IN Button_run(phone, orderId, whatsapp_isDuplicate(orderData),
                           Request(phone, TPL_ORDER_ALREADY_PROCESSED,
                                   Obj([body |-> <<ToUpperCase(status),
                                                   "https://wa.me/" \o WHATSAPP_NUMBER_ID>>]),
                                   waOk),
                           whatsapp_case(action, orderId, orderData), noteRes, waOk)
     /\ settled' = Settle(settled, orders')
     /\ ev' = Event("whatsapp_button", action, IF found = {} THEN 0 ELSE CHOOSE x \in found : TRUE, phone)
     /\ UNCHANGED <<checkouts, sweepLog, now, pureVars>>

\* -------------------------------------------------- POST /webhook (Meta)
meta_isDuplicate(orderData) ==
  StatusOf(orderData) \in {"confirmed", "cancelled", "rescheduled"}

meta_case(action, orderId, orderData) ==
  LET name == Field(orderData, "order_name", "-")
  IN CASE action = PAYLOAD_CONFIRM_ORDER ->
            [known |-> TRUE, newStatus |-> "confirmed",
             note |-> "Confirmed via WhatsApp", tpl |-> TPL_ORDER_CONFIRMED_REPLY,
             body |-> <<Field(orderData, "customerName", "Customer"), name>>]
       [] action = PAYLOAD_CANCEL_ORDER ->
            [known |-> TRUE, newStatus |-> "cancelled",
             note |-> "Cancelled via WhatsApp", tpl |-> TPL_ORDER_CANCELLED_REPLY_AUTO,
             body |-> <<name>>]
       [] action = PAYLOAD_REDELIVER_TOMORROW ->
            [known |-> TRUE, newStatus |-> "rescheduled",
             note |-> "Redelivery requested via WhatsApp",
             tpl |-> TPL_REDELIVERY_SCHEDULED,
             body |-> <<ToString(orderId), "Tomorrow", "10am-6pm",
                        Field(orderData, "courier", "Courier"),
                        Field(orderData, "total", "0") \o " "
                          \o Field(orderData, "currency", "PKR")>>]
       [] OTHER ->
            [known |-> FALSE, newStatus |-> "action_" \o action,
             note |-> "", tpl |-> "", body |-> <<>>]

\* the payload's order id is used as it is (the record may be missing);
\* without one, the latest order of the sender's phone; an order name
\* ("#...") is no valid Firebase path and child() throws
meta_found(phone, ref) ==
  IF ref = NoRef THEN LastByChild(orders, "phone", phone)
  ELSE IF ref.hash THEN {}
  ELSE {ref.id}

MetaButton(from, action, ref, noteRes, waOk) ==
  LET phone == normalizePhone(from, DEFAULT_COUNTRY_CODE)
      found == meta_found(phone, ref)
  IN /\ resp' = <<200>>
     /\ IF found = {}
        THEN /\ out' = <<>>
             /\ notes' = <<>>
             /\ orders' = orders
        ELSE LET orderId == CHOOSE x \in found : TRUE
                 orderData == IF orderId \in DOMAIN orders THEN orders[orderId] ELSE <<>>
                 status == StatusOf(orderData)
             IN Button_run(phone, orderId, meta_isDuplicate(orderData),
                           Request(phone, TPL_CALL_US_TEMPLATE,
                                   Obj([body |-> <<ToUpperCase(status)>>]), waOk),
                           meta_case(action, orderId, orderData), noteRes, waOk)
     /\ settled' = Settle(settled, orders')
     /\ ev' = Event("meta_button", action, IF found = {} THEN 0 ELSE CHOOSE x \in found : TRUE, phone)
     /\ UNCHANGED <<checkouts, sweepLog, now, pureVars>>

\* --------------------------------------- POST /webhook/shopify/orders
\* handleNewOrder: the phone is stored normalised under customer.phone; the
\* template is sent with an empty parameter list; every failure is caught
handleNewOrder_record(o, customerPhone, firstName, t) ==
  [orderId |-> o,
   createdAt |-> t,
   customer |-> [name |-> IF firstName = "" THEN "Unknown" ELSE firstName,
                 phone |-> customerPhone,
                 address |-> ""],
   status |-> "PENDING_CONFIRMATION"]

ShopifyOrders(o, rawPhone, firstName, detailsOk, waOk) ==
  LET customerPhone == normalizePhone(rawPhone, DEFAULT_COUNTRY_CODE)
  IN /\ notes' = <<>>
     /\ resp' = <<200>>
     /\ IF ~detailsOk
        THEN /\ out' = <<>>
             /\ orders' = orders
        ELSE /\ orders' = dbSet(orders, o, handleNewOrder_record(o, customerPhone, firstName, now))
             /\ out' = IF customerPhone = Null THEN <<>>
                       ELSE <<Request(customerPhone, TPL_ORDER_CONFIRMATION, Arr(<<>>), waOk)>>
     /\ settled' = Settle(settled, orders')
     /\ ev' = Event("orders_created", "", o, customerPhone)
     /\ UNCHANGED <<checkouts, sweepLog, now, pureVars>>

\* --------------------------------------- POST /webhook/shopify/cancel
\* the status is written first, then the template is sent (to the
\* normalised phone, which may be null)
ShopifyCancel(o, rawPhone, waOk) ==
  /\ orders' = dbUpdate(orders, o, [status |-> "cancelled"])
  /\ out' = <<Request(normalizePhone(rawPhone, DEFAULT_COUNTRY_CODE),
                      TPL_ORDER_CANCELLED_REPLY_AUTO, Arr(<<ToString(o)>>), waOk)>>
  /\ notes' = <<>>
  /\ resp' = IF waOk THEN <<200>> ELSE <<500>>
  /\ settled' = Settle(settled, orders')
  /\ ev' = Event("order_cancelled", "", o, normalizePhone(rawPhone, DEFAULT_COUNTRY_CODE))
  /\ UNCHANGED <<checkouts, sweepLog, now, pureVars>>

\* -------------------------------------------------- POST /webhook/courier
\* the templates sent and the status set by each case of the switch
courier_case(status) ==
  CASE status = "shipped" ->
         [tpls |-> <<TPL_YOUR_ORDER_IS_SHIPPED>>, status |-> "shipped"]
    [] status = "attempted" ->
         [tpls |-> <<TPL_DELIVERY_ATTEMPTED>>, status |-> "attempted"]
    [] status = "pending" ->
         [tpls |-> <<TPL_FAILED_DELIVERY_FOLLOWUP>>, status |-> "pending_followup"]
    [] status = "delivered" ->
         [tpls |-> <<TPL_ORDER_DELIVERED, TPL_FEEDBACK_REQUEST>>, status |-> "delivered"]
    [] status \in {"rto", "return_initiated"} ->
         [tpls |-> <<TPL_RETURN_INITIATED_CUST>>, status |-> "return_initiated"]
    [] status = "dispatch_reminder" ->
         [tpls |-> <<TPL_ORDER_DISPATCH_REMINDER>>, status |-> "dispatch_reminder"]
    [] OTHER ->
         [tpls |-> <<>>, status |-> ""]

\* the calls made until the first one the provider rejects (that one included)
SentUntilThrow(reqs) ==
  LET bad == {i \in 1..Len(reqs) : ~reqs[i].ok}
  IN IF bad = {} THEN reqs ELSE SubSeq(reqs, 1, CHOOSE i \in bad : \A j \in bad : i <= j)

Threw(reqs) == \E i \in 1..Len(reqs) : ~reqs[i].ok

\* waOk[i] is the provider's answer to the i-th template of the case
Courier(o, rawPhone, status, waOk) ==
  LET phone == normalizePhone(rawPhone, DEFAULT_COUNTRY_CODE)
      c == courier_case(status)
      reqs == [i \in 1..Len(c.tpls) |-> Request(phone, c.tpls[i], Arr(<<ToString(o)>>), waOk[i])]
      meta == IF c.status = ""
              THEN [phone |-> phone, updatedAt |-> now]
              ELSE [phone |-> phone, updatedAt |-> now, status |-> c.status]
  IN /\ notes' = <<>>
     /\ IF phone = Null
        THEN /\ resp' = <<200>>
             /\ out' = <<>>
             /\ orders' = orders
        ELSE /\ out' = SentUntilThrow(reqs)
             /\ IF Threw(reqs)
                THEN resp' = <<500>> /\ orders' = orders
                ELSE resp' = <<200>> /\ orders' = dbUpdate(orders, o, meta)
     /\ settled' = Settle(settled, orders')
     /\ ev' = Event("courier", status, o, phone)
     /\ UNCHANGED <<checkouts, sweepLog, now, pureVars>>

\* ------------------------------------- POST /webhook/abandoned_checkout
\* DEFAULT_CHECKOUT_URL is not defined: a checkout without a url throws
\* before the record is written
AbandonedCheckout(c, rawPhone, hasUrl, waOk) ==
  LET phone == normalizePhone(rawPhone, DEFAULT_COUNTRY_CODE)
  IN /\ IF phone = Null
        THEN resp' = <<200>> /\ out' = <<>> /\ checkouts' = checkouts
        ELSE IF ~hasUrl
        THEN resp' = <<500>> /\ out' = <<>> /\ checkouts' = checkouts
        ELSE /\ checkouts' = dbSet(checkouts, c,
                                   [phone |-> phone, checkoutId |-> c, product |-> "Product",
                                    url |-> "url", createdAt |-> now, reminded |-> FALSE])
             /\ out' = <<Request(phone, TPL_ABANDONED_CHECKOUT, Arr(<<"Customer">>), waOk)>>
             /\ resp' = IF waOk THEN <<200>> ELSE <<500>>
     /\ notes' = <<>>
     /\ sweepLog' = <<>>
     /\ ev' = Event("checkout", "", c, phone)
     /\ UNCHANGED <<orders, settled, now, pureVars>>

\* ------------------------------------------ cron: abandoned checkouts
\* mutant: the reminded flag is not looked at
sweep_qualifies_noflag(c, t) == t - c.createdAt > REMINDER_AGE_MS

\* mutant: a record whose age equals the threshold qualifies
sweep_qualifies_atleast(c, t) == ~c.reminded /\ t - c.createdAt >= REMINDER_AGE_MS

\* the records the sweep reminds: not reminded yet and older than one hour
sweep_qualifies(c, t) == ~c.reminded /\ t - c.createdAt > REMINDER_AGE_MS

\* Object.entries visits integer-like keys in ascending order
RECURSIVE Ascending(_)
Ascending(S) ==
  IF S = {} THEN <<>>
  ELSE LET m == CHOOSE x \in S : \A y \in S : x <= y
       IN <<m>> \o Ascending(S \ {m})

\* history of C3: the runs of the job since the checkouts last changed,
\* the last two of them kept
LogRun(log, run) ==
  IF log = <<>> THEN <<run>> ELSE <<log[Len(log)], run>>

\* rejects: the checkouts whose reminder the provider rejects; the first
\* rejected call throws out of the loop, the records after it are not visited
Sweep(rejects) ==
  LET due == Ascending({k \in DOMAIN checkouts : sweep_qualifies(checkouts[k], now)})
      reqs == [i \in 1..Len(due) |->
                 Request(checkouts[due[i]].phone, TPL_ABANDONED_CHECKOUT,
                         Arr(<<"Dear Customer">>), due[i] \notin rejects)]
      sent == SentUntilThrow(reqs)
      done == {due[i] : i \in {j \in 1..Len(sent) : sent[j].ok}}
  IN /\ out' = sent
     /\ checkouts' = [k \in DOMAIN checkouts |->
                        IF k \in done
                        THEN [checkouts[k] EXCEPT !.reminded = TRUE]
                        ELSE checkouts[k]]
     /\ notes' = <<>>
     /\ resp' = <<>>
     /\ sweepLog' = LogRun(sweepLog, [sent |-> SubSeq(due, 1, Len(sent)), accepted |-> done])
     /\ ev' = Event("sweep", "", 0, Null)
     /\ UNCHANGED <<orders, settled, now, pureVars>>

\* ------------------------------------------------------------------ clock
HOUR == 60 * 60 * 1000

\* time passes between two events (d hours)
Tick(d) ==
  /\ now + d * HOUR <= MaxHours * HOUR
  /\ now' = now + d * HOUR
  /\ ev' = Event("tick", "", 0, Null)
  /\ UNCHANGED <<orders, checkouts, out, notes, resp, settled, sweepLog, pureVars>>

\* ------------------------------------------------------------------ specs
NormIdle ==
  /\ nRaw = <<>>
  /\ nCC = <<>>
  /\ nOnce = Null
  /\ nTwice = Null
  /\ nPc = "idle"

StoreEmpty ==
  /\ orders = <<>>
  /\ checkouts = <<>>
  /\ now = 0
  /\ out = <<>>
  /\ notes = <<>>
  /\ resp = <<>>
  /\ settled = {}
  /\ sweepLog = <<>>
  /\ ev = Event("none", "", 0, Null)

SendIdle ==
  /\ sPhone = Null
  /\ sTemplate = ""
  /\ sAnswer = [status |-> 0, json |-> FALSE]
  /\ sResult = [threw |-> FALSE, value |-> "undefined"]
  /\ sPc = "idle"

RunIds == {1, 2}

RaceIdle ==
  /\ runs = [r \in RunIds |-> [pc |-> "idle"]]
  /\ effects = <<>>

MemEmpty == recentOrders = <<>> /\ incoming = <<>>

Init == StoreEmpty /\ NormIdle /\ SendIdle /\ RaceIdle /\ MemEmpty

\* the order handlers
Next ==
  \/ \E o \in OrderIds, ph \in OrderPhones, fn \in FirstNames, d \in BOOLEAN, w \in BOOLEAN :
       ShopifyOrderCreated(o, ph, fn, d, w)
  \/ \E o \in OrderIds, ph \in EventPhones, fn \in FirstNames, d \in BOOLEAN, w \in BOOLEAN :
       ShopifyOrders(o, ph, fn, d, w)
  \/ \E o \in OrderIds, ph \in EventPhones, w \in BOOLEAN :
       ShopifyCancel(o, ph, w)
  \/ \E from \in Senders, a \in ButtonActions, r \in Refs, n \in NoteResults, w \in BOOLEAN :
       WhatsAppButton(from, a, r, n, w)
  \/ \E from \in Senders, a \in ButtonActions, r \in Refs, n \in NoteResults, w \in BOOLEAN :
       MetaButton(from, a, r, n, w)
  \/ \E o \in OrderIds, ph \in EventPhones, st \in CourierStatuses, w \in CourierAnswers :
       Courier(o, ph, st, w)

Spec == Init /\ [][Next]_vars

\* the reminder job and the checkouts it reads
NextSweep ==
  \/ \E c \in CheckoutIds, ph \in EventPhones, u \in BOOLEAN, w \in BOOLEAN :
       AbandonedCheckout(c, ph, u, w)
  \/ \E rejects \in SUBSET CheckoutIds : Sweep(rejects)
  \/ \E d \in {1, 6} : Tick(d)

SpecSweep == Init /\ [][NextSweep]_vars

\* ------------- src/index.js: the same webhook and job, fetch-based dispatcher
\* the provider's answers tried: accepted, rejected (JSON error body), no
\* answer (the connection failed)
SweepAnswers ==
  {[status |-> 200, json |-> TRUE], [status |-> 400, json |-> TRUE],
   [status |-> 0, json |-> FALSE]}

AbandonedCheckout_fetch(c, rawPhone, hasUrl, answer) ==
  LET phone == normalizePhone(rawPhone, DEFAULT_COUNTRY_CODE)
  IN /\ IF phone = Null
        THEN resp' = <<200>> /\ out' = <<>> /\ checkouts' = checkouts
        ELSE IF ~hasUrl
        THEN resp' = <<500>> /\ out' = <<>> /\ checkouts' = checkouts
        ELSE /\ checkouts' = dbSet(checkouts, c,
                                   [phone |-> phone, checkoutId |-> c, product |-> "Product",
                                    url |-> "url", createdAt |-> now, reminded |-> FALSE])
             /\ out' = <<Request(phone, TPL_ABANDONED_CHECKOUT, Arr(<<"Customer">>),
                                 Accepted(answer))>>
             /\ resp' = IF sendWhatsAppTemplate_fetch(answer).threw THEN <<500>> ELSE <<200>>
     /\ notes' = <<>>
     /\ sweepLog' = <<>>
     /\ ev' = Event("checkout", "", c, phone)
     /\ UNCHANGED <<orders, settled, now, pureVars>>

\* answers[k]: the provider's answer to the reminder of checkout k.  A call
\* that throws ends the job; after a call that returns (the provider's
\* error body included) the record is flagged
Sweep_fetch(answers) ==
  LET due == Ascending({k \in DOMAIN checkouts : sweep_qualifies(checkouts[k], now)})
      threw == {i \in 1..Len(due) : sendWhatsAppTemplate_fetch(answers[due[i]]).threw}
      n == IF threw = {} THEN Len(due) ELSE CHOOSE i \in threw : \A j \in threw : i <= j
      done == {due[i] : i \in (1..n) \ threw}
  IN /\ out' = [i \in 1..n |->
                  Request(checkouts[due[i]].phone, TPL_ABANDONED_CHECKOUT,
                          Arr(<<"Dear Customer">>), Accepted(answers[due[i]]))]
     /\ checkouts' = [k \in DOMAIN checkouts |->
                        IF k \in done
                        THEN [checkouts[k] EXCEPT !.reminded = TRUE]
                        ELSE checkouts[k]]
     /\ notes' = <<>>
     /\ resp' = <<>>
     /\ sweepLog' = LogRun(sweepLog,
                           [sent |-> SubSeq(due, 1, n),
                            accepted |-> {due[i] : i \in {j \in 1..n : Accepted(answers[due[j]])}}])
     /\ ev' = Event("sweep", "", 0, Null)
     /\ UNCHANGED <<orders, settled, now, pureVars>>

NextSweepFetch ==
  \/ \E c \in CheckoutIds, ph \in EventPhones, u \in BOOLEAN, a \in SweepAnswers :
       AbandonedCheckout_fetch(c, ph, u, a)
  \/ \E answers \in [CheckoutIds -> SweepAnswers] : Sweep_fetch(answers)
  \/ \E d \in {1, 6} : Tick(d)

SpecSweepFetch == Init /\ [][NextSweepFetch]_vars

\* the reminder job and the orders, which it does not read
NextOrderSweep ==
  \/ \E o \in OrderIds, ph \in OrderPhones, fn \in FirstNames, d \in BOOLEAN, w \in BOOLEAN :
       ShopifyOrderCreated(o, ph, fn, d, w)
  \/ \E rejects \in SUBSET CheckoutIds : Sweep(rejects)
  \/ \E d \in {1, 6} : Tick(d)

SpecOrderSweep == Init /\ [][NextOrderSweep]_vars

\* ----------------------------------------- inputs of the phone normaliser
\* A raw phone is a head of up to three characters over {0, 9, 2, -}
\* followed by a run of 0..MaxPad further digits "5", so that the digit
\* string is shorter than, equal to and longer than 10 characters.
HeadChars == {"0", "9", "2", "-"}
Heads == {<<>>} \cup {<<a>> : a \in HeadChars}
           \cup {<<a, b>> : a \in HeadChars, b \in HeadChars}
           \cup {<<a, b, c>> : a \in HeadChars, b \in HeadChars, c \in {"0", "2", "-"}}
Pad(n) == [i \in 1..n |-> "5"]
ScenarioPhones == { <<"0", "3", "0", "0", "1", "2", "3", "4", "5", "6", "7">>,
                    <<"9", "2", "3", "0", "0", "1", "2", "3", "4", "5", "6", "7">>,
                    <<"3", "0", "0", "1", "2", "3", "4", "5", "6", "7">> }
RawInputs == {h \o Pad(n) : h \in Heads, n \in 0..MaxPad} \cup ScenarioPhones
\* country codes: none, well-formed ones, one with a leading 0 and one
\* written with a "+"
CountryCodes == {<<>>, <<"9", "2">>, <<"9">>, <<"2">>, <<"0", "9">>, <<"+", "9", "2">>}

InitNorm ==
  /\ StoreEmpty
  /\ SendIdle
  /\ RaceIdle
  /\ MemEmpty
  /\ nRaw \in RawInputs
  /\ nCC \in CountryCodes
  /\ nOnce = Null
  /\ nTwice = Null
  /\ nPc = "raw"

Normalize ==
  /\ nPc = "raw"
  /\ nOnce' = normalizePhone(nRaw, nCC)
  /\ nPc' = "once"
  /\ UNCHANGED <<nRaw, nCC, nTwice, storeVars, sendVars, raceVars, memVars>>

Renormalize ==
  /\ nPc = "once"
  /\ nTwice' = normalizePhone(nOnce, nCC)
  /\ nPc' = "twice"
  /\ UNCHANGED <<nRaw, nCC, nOnce, storeVars, sendVars, raceVars, memVars>>

NextNorm == Normalize \/ Renormalize

SpecNorm == InitNorm /\ [][NextNorm]_vars

\* ---------------------------------- POST /webhook/shopify/fulfillment
FulfillmentIds == {"f1", "f2"}
ShipmentStatuses == {"", "in_transit", "delivered", "label_printed"}

\* the template of a shipment status ("": none)
fulfillment_templateMap(shipment) ==
  CASE shipment = "in_transit" -> "order_in_transit"
    [] shipment = "out_for_delivery" -> "order_out_for_delivery"
    [] shipment = "delivered" -> TPL_ORDER_DELIVERED
    [] shipment = "failure" -> "order_failed_delivery"
    [] OTHER -> ""

\* the fulfillment sub-records stored under an order
Fulfillments(store, o) ==
  IF o \in DOMAIN store /\ Has(store[o], "fulfillments")
  THEN store[o].fulfillments ELSE <<>>

\* 200 is sent first.  The phone is the one of the order details (not
\* normalised); update({phone: null}) removes the phone.  The sub-record
\* is set under the order, then the template of the case is sent.
Fulfillment(o, f, shipment, phone, detailsOk, waOk) ==
  LET name == OrderName(o)
      root == dbUpdate(orders, o, [order_name |-> name, phone |-> phone])[o]
      kept == IF phone = Null
              THEN [k \in DOMAIN root \ {"phone"} |-> root[k]] ELSE root
      sub == [status |-> "success", shipment_status |-> shipment,
              tracking_url |-> "url", updated_at |-> now]
      subs == dbSet(Fulfillments(orders, o), f, sub)
      rec == [k \in DOMAIN kept \cup {"fulfillments"} |->
                IF k = "fulfillments" THEN subs ELSE kept[k]]
      tpl == IF shipment = "" THEN TPL_YOUR_ORDER_IS_SHIPPED
             ELSE fulfillment_templateMap(shipment)
  IN /\ resp' = <<200>>
     /\ notes' = <<>>
     /\ IF ~detailsOk
        THEN out' = <<>> /\ orders' = orders
        ELSE /\ orders' = dbSet(orders, o, rec)
             /\ out' = IF phone = Null \/ tpl = "" THEN <<>>
                       ELSE <<Request(phone, tpl, Obj([body |-> <<name>>]), waOk)>>
     /\ settled' = Settle(settled, orders')
     /\ ev' = Event("fulfillment", shipment, o, phone)
     /\ UNCHANGED <<checkouts, sweepLog, now, pureVars>>

\* the handlers that write whole order records, and the fulfillment webhook
NextFulfillment ==
  \/ \E o \in OrderIds, ph \in EventPhones, fn \in FirstNames, d \in BOOLEAN, w \in BOOLEAN :
       \/ ShopifyOrderCreated(o, ph, fn, d, w)
       \/ ShopifyOrders(o, ph, fn, d, w)
  \/ \E o \in OrderIds, ph \in EventPhones, w \in BOOLEAN : ShopifyCancel(o, ph, w)
  \/ \E o \in OrderIds, f \in FulfillmentIds, sh \in ShipmentStatuses,
        ph \in {<<"9", "2", "3">>, Null}, d \in BOOLEAN, w \in BOOLEAN :
       Fulfillment(o, f, sh, ph, d, w)

SpecFulfillment == Init /\ [][NextFulfillment]_vars

\* ------------------------------------ the handlers while Firebase is down
\* every call of the Firebase client rejects; ev' carries the mark
\* store = "down"
StoreDown(e) ==
  [kind |-> e.kind, trigger |-> e.trigger, id |-> e.id, phone |-> e.phone,
   store |-> "down"]

\* 200 is sent first; saveCODOrder's set rejects, and the catch block's
\* sendStatus(500) comes after the answer
ShopifyOrderCreated_storeDown(o, rawPhone) ==
  /\ ev' = StoreDown(Event("order_created", "", o,
                           normalizePhone(rawPhone, DEFAULT_COUNTRY_CODE)))
  /\ resp' = <<200, 500>>
  /\ out' = <<>>
  /\ notes' = <<>>
  /\ UNCHANGED <<orders, checkouts, now, settled, sweepLog, pureVars>>

\* 200 is sent first; the lookup rejects, the catch block logs
WhatsAppButton_storeDown(from, action, ref) ==
  /\ ev' = StoreDown(Event("whatsapp_button", action, 0,
                           normalizePhone(from, DEFAULT_COUNTRY_CODE)))
  /\ resp' = <<200>>
  /\ out' = <<>>
  /\ notes' = <<>>
  /\ UNCHANGED <<orders, checkouts, now, settled, sweepLog, pureVars>>

MetaButton_storeDown(from, action, ref) ==
  /\ ~ref.hash
  /\ ev' = StoreDown(Event("meta_button", action, 0,
                           normalizePhone(from, DEFAULT_COUNTRY_CODE)))
  /\ resp' = <<200>>
  /\ out' = <<>>
  /\ notes' = <<>>
  /\ UNCHANGED <<orders, checkouts, now, settled, sweepLog, pureVars>>

\* handleNewOrder catches the rejection of dbSet; the route answers 200
ShopifyOrders_storeDown(o, rawPhone) ==
  /\ ev' = StoreDown(Event("orders_created", "", o,
                           normalizePhone(rawPhone, DEFAULT_COUNTRY_CODE)))
  /\ resp' = <<200>>
  /\ out' = <<>>
  /\ notes' = <<>>
  /\ UNCHANGED <<orders, checkouts, now, settled, sweepLog, pureVars>>

\* update rejects before the template is sent; the catch block answers 500
ShopifyCancel_storeDown(o, rawPhone) ==
  /\ ev' = StoreDown(Event("order_cancelled", "", o,
                           normalizePhone(rawPhone, DEFAULT_COUNTRY_CODE)))
  /\ resp' = <<500>>
  /\ out' = <<>>
  /\ notes' = <<>>
  /\ UNCHANGED <<orders, checkouts, now, settled, sweepLog, pureVars>>

\* orderRef.once rejects (an event without phone returns before it); the
\* catch block answers 500
Courier_storeDown(o, rawPhone, status) ==
  /\ normalizePhone(rawPhone, DEFAULT_COUNTRY_CODE) # Null
  /\ ev' = StoreDown(Event("courier", status, o,
                           normalizePhone(rawPhone, DEFAULT_COUNTRY_CODE)))
  /\ resp' = <<500>>
  /\ out' = <<>>
  /\ notes' = <<>>
  /\ UNCHANGED <<orders, checkouts, now, settled, sweepLog, pureVars>>

\* Firebase is up for the order-created and cancel events and down for
\* any event
NextStoreDown ==
  \/ \E o \in OrderIds, ph \in OrderPhones, n \in FirstNames, d \in BOOLEAN, w \in BOOLEAN :
       ShopifyOrderCreated(o, ph, n, d, w)
  \/ \E o \in OrderIds, ph \in EventPhones, w \in BOOLEAN : ShopifyCancel(o, ph, w)
  \/ \E o \in OrderIds, ph \in OrderPhones : ShopifyOrderCreated_storeDown(o, ph)
  \/ \E from \in Senders, a \in ButtonActions, ref \in Refs :
       \/ WhatsAppButton_storeDown(from, a, ref)
       \/ MetaButton_storeDown(from, a, ref)
  \/ \E o \in OrderIds, ph \in EventPhones :
       \/ ShopifyOrders_storeDown(o, ph)
       \/ ShopifyCancel_storeDown(o, ph)
       \/ \E st \in CourierStatuses : Courier_storeDown(o, ph, st)

SpecStoreDown == Init /\ [][NextStoreDown]_vars

\* ------------------------- cron: two invocations of the job, interleaved
\* One invocation, await by await.  The snapshot is read once; the loop
\* tests the flag and the age of the snapshot's records.
SweepRead(r) ==
  /\ runs[r].pc = "idle"
  /\ LET due == Ascending({k \in DOMAIN checkouts : sweep_qualifies(checkouts[k], now)})
     IN runs' = [runs EXCEPT ![r] =
                   IF due = <<>> THEN [pc |-> "done"]
                   ELSE [pc |-> "send", todo |-> due, snap |-> checkouts]]
  /\ UNCHANGED <<storeVars, effects, normVars, sendVars, memVars>>

\* await sendWhatsAppTemplate(c.phone, "abandoned_checkout", ...): a
\* rejected call throws out of the job
SweepSend(r, ok) ==
  /\ runs[r].pc = "send"
  /\ effects' = Append(effects, [kind |-> "dispatch", run |-> r, id |-> Head(runs[r].todo),
                                 tpl |-> TPL_ABANDONED_CHECKOUT, ok |-> ok])
  /\ runs' = [runs EXCEPT ![r] = IF ok THEN [@ EXCEPT !.pc = "flag"] ELSE [pc |-> "done"]]
  /\ UNCHANGED <<storeVars, normVars, sendVars, memVars>>

\* await ...child(checkoutId).update({ reminded: true }), then the next
\* qualifying record of the snapshot
SweepFlag(r) ==
  /\ runs[r].pc = "flag"
  /\ checkouts' = dbUpdate(checkouts, Head(runs[r].todo), [reminded |-> TRUE])
  /\ runs' = [runs EXCEPT ![r] =
                IF Tail(@.todo) = <<>> THEN [pc |-> "done"]
                ELSE [@ EXCEPT !.pc = "send", !.todo = Tail(@)]]
  /\ UNCHANGED <<orders, now, out, notes, resp, settled, sweepLog, ev, effects,
                 normVars, sendVars, memVars>>

\* each checkout is abandoned once; the job is invoked twice
NextSweepRace ==
  \/ \E c \in CheckoutIds, w \in BOOLEAN :
       /\ c \notin DOMAIN checkouts
       /\ runs = [r \in RunIds |-> [pc |-> "idle"]]
       /\ AbandonedCheckout(c, <<"9", "2", "3">>, TRUE, w)
  \/ \E d \in {1, 6} : runs = [r \in RunIds |-> [pc |-> "idle"]] /\ Tick(d)
  \/ \E r \in RunIds :
       \/ SweepRead(r)
       \/ \E ok \in BOOLEAN : SweepSend(r, ok)
       \/ SweepFlag(r)

SpecSweepRace == Init /\ [][NextSweepRace]_vars

\* ------------- /webhook/whatsapp and /webhook/courier, await by await
\* A run keeps what it has read (data) and what it is about to do.  The
\* payload names a stored order by its id, so the first lookup hits.
Done(run) == [pc |-> "done", handler |-> run.handler, id |-> run.id, trigger |-> run.trigger]

\* res.sendStatus(200), then await db.ref("orders").child(orderRef).once(
\* "value"); the duplicate check and the switch look at this snapshot
ButtonRead(r, from, action, o) ==
  LET phone == normalizePhone(from, DEFAULT_COUNTRY_CODE)
      c == whatsapp_case(action, o, orders[o])
  IN /\ runs[r].pc = "idle"
     /\ o \in DOMAIN orders
     /\ runs' = [runs EXCEPT ![r] =
                   [pc |-> IF whatsapp_isDuplicate(orders[o]) THEN "dup"
                           ELSE IF c.known THEN "note" ELSE "write",
                    handler |-> "button", id |-> o, trigger |-> action,
                    phone |-> phone, data |-> orders[o], case |-> c]]
     /\ effects' = Append(effects, [kind |-> "received", run |-> r, id |-> o])
     /\ UNCHANGED <<storeVars, normVars, sendVars, memVars>>

\* await sendWhatsAppTemplate(phone, "order_already_processed", ...); return
ButtonDup(r, ok) ==
  /\ runs[r].pc = "dup"
  /\ effects' = Append(effects, [kind |-> "dispatch", run |-> r, id |-> runs[r].id,
                                 tpl |-> TPL_ORDER_ALREADY_PROCESSED, ok |-> ok])
  /\ runs' = [runs EXCEPT ![r] = Done(@)]
  /\ UNCHANGED <<storeVars, normVars, sendVars, memVars>>

\* await updateShopifyOrderNote(orderId, ...)
ButtonNote(r, res) ==
  /\ runs[r].pc = "note"
  /\ effects' = Append(effects, [kind |-> "note", run |-> r, id |-> runs[r].id,
                                 res |-> res])
  /\ runs' = [runs EXCEPT ![r] = IF res = "throw" THEN Done(@) ELSE [@ EXCEPT !.pc = "send"]]
  /\ UNCHANGED <<storeVars, normVars, sendVars, memVars>>

\* await sendWhatsAppTemplate(phone, <reply>, {body}): a rejection throws
ButtonSend(r, ok) ==
  /\ runs[r].pc = "send"
  /\ runs[r].handler = "button"
  /\ effects' = Append(effects, [kind |-> "dispatch", run |-> r, id |-> runs[r].id,
                                 tpl |-> runs[r].case.tpl, ok |-> ok])
  /\ runs' = [runs EXCEPT ![r] = IF ok THEN [@ EXCEPT !.pc = "write"] ELSE Done(@)]
  /\ UNCHANGED <<storeVars, normVars, sendVars, memVars>>

\* await db.ref("orders").child(orderId).update({status, updatedAt})
ButtonWrite(r) ==
  /\ runs[r].pc = "write"
  /\ runs[r].handler = "button"
  /\ orders' = dbUpdate(orders, runs[r].id,
                        [status |-> runs[r].case.newStatus, updatedAt |-> now])
  /\ settled' = Settle(settled, orders')
  /\ effects' = Append(effects, [kind |-> "write", run |-> r, id |-> runs[r].id])
  /\ runs' = [runs EXCEPT ![r] = Done(@)]
  /\ UNCHANGED <<checkouts, now, out, notes, resp, sweepLog, ev, normVars, sendVars, memVars>>

\* await orderRef.once("value"): meta is the snapshot with phone and
\* updatedAt set; the case of the switch will add its status to it
CourierRead(r, o, rawPhone, status) ==
  LET phone == normalizePhone(rawPhone, DEFAULT_COUNTRY_CODE)
      c == courier_case(status)
  IN /\ runs[r].pc = "idle"
     /\ phone # Null
     /\ o \in DOMAIN orders
     /\ runs' = [runs EXCEPT ![r] =
                   [pc |-> IF c.tpls = <<>> THEN "write" ELSE "send",
                    handler |-> "courier", id |-> o, trigger |-> status,
                    phone |-> phone, tpls |-> c.tpls,
                    data |-> dbUpdate(orders, o, [phone |-> phone, updatedAt |-> now])[o]]]
     /\ effects' = Append(effects, [kind |-> "received", run |-> r, id |-> o])
     /\ UNCHANGED <<storeVars, normVars, sendVars, memVars>>

\* await sendWhatsAppTemplate(phone, <template of the case>, [...]): a
\* rejection throws to the catch block (500, no write)
CourierSend(r, ok) ==
  /\ runs[r].pc = "send"
  /\ runs[r].handler = "courier"
  /\ effects' = Append(effects, [kind |-> "dispatch", run |-> r, id |-> runs[r].id,
                                 tpl |-> Head(runs[r].tpls), ok |-> ok])
  /\ runs' = [runs EXCEPT ![r] =
                IF ~ok THEN Done(@)
                ELSE IF Tail(@.tpls) = <<>> THEN [@ EXCEPT !.pc = "write"]
                ELSE [@ EXCEPT !.tpls = Tail(@)]]
  /\ UNCHANGED <<storeVars, normVars, sendVars, memVars>>

\* meta.status = <status of the case>; await orderRef.update(meta)
CourierWrite(r) ==
  LET c == courier_case(runs[r].trigger)
      meta == IF c.status = "" THEN runs[r].data
              ELSE [f \in DOMAIN runs[r].data \cup {"status"} |->
                      IF f = "status" THEN c.status ELSE runs[r].data[f]]
  IN /\ runs[r].pc = "write"
     /\ runs[r].handler = "courier"
     /\ orders' = dbUpdate(orders, runs[r].id, meta)
     /\ settled' = Settle(settled, orders')
     /\ effects' = Append(effects, [kind |-> "write", run |-> r, id |-> runs[r].id])
     /\ runs' = [runs EXCEPT ![r] = Done(@)]
     /\ UNCHANGED <<checkouts, now, out, notes, resp, sweepLog, ev, normVars, sendVars, memVars>>

\* courier statuses of the interleaved runs: one the switch knows, one it
\* does not
RaceCourierStatuses == {"shipped", "in_transit"}

\* the order is created, then two events about it are handled at once
NextOrderRace ==
  \/ \E o \in OrderIds :
       /\ o \notin DOMAIN orders
       /\ ShopifyOrderCreated(o, <<"9", "2", "3">>, "Ali", TRUE, TRUE)
  \/ \E r \in RunIds, o \in OrderIds :
       \/ \E from \in Senders, a \in {PAYLOAD_CONFIRM_ORDER, PAYLOAD_CANCEL_ORDER} :
            ButtonRead(r, from, a, o)
       \/ \E ph \in Senders, st \in RaceCourierStatuses : CourierRead(r, o, ph, st)
  \/ \E r \in RunIds :
       \/ \E ok \in BOOLEAN : ButtonDup(r, ok) \/ ButtonSend(r, ok) \/ CourierSend(r, ok)
       \/ \E res \in NoteResults : ButtonNote(r, res)
       \/ ButtonWrite(r)
       \/ CourierWrite(r)

SpecOrderRace == Init /\ [][NextOrderRace]_vars

\* ------------------------------------------------ calls of the dispatcher
Templates ==
  {TPL_ORDER_CONFIRMATION, TPL_ORDER_CONFIRMED_REPLY, TPL_ORDER_CANCELLED_REPLY_AUTO,
   TPL_ORDER_DISPATCH_REMINDER, TPL_DELIVERY_ATTEMPTED, TPL_FAILED_DELIVERY_FOLLOWUP,
   TPL_REDELIVERY_SCHEDULED, TPL_RETURN_INITIATED_CUST, TPL_ORDER_DELIVERED,
   TPL_ABANDONED_CHECKOUT, TPL_FEEDBACK_REQUEST, TPL_YOUR_ORDER_IS_SHIPPED,
   TPL_CALL_US_TEMPLATE, TPL_ORDER_ALREADY_PROCESSED}

InitSend ==
  /\ StoreEmpty
  /\ NormIdle
  /\ RaceIdle
  /\ MemEmpty
  /\ sPhone \in {normalizePhone(p, DEFAULT_COUNTRY_CODE) : p \in OrderPhones}
  /\ sTemplate \in Templates
  /\ sAnswer \in ProviderAnswers
  /\ sResult = [threw |-> FALSE, value |-> "undefined"]
  /\ sPc = "idle"

\* a handler of src/unnamed/part_002 awaits the dispatcher
Send ==
  /\ sPc = "idle"
  /\ sResult' = sendWhatsAppTemplate(sAnswer)
  /\ sPc' = "axios"
  /\ UNCHANGED <<sPhone, sTemplate, sAnswer, storeVars, normVars, raceVars, memVars>>

\* a handler of src/index.js awaits the dispatcher
SendFetch ==
  /\ sPc = "idle"
  /\ sResult' = sendWhatsAppTemplate_fetch(sAnswer)
  /\ sPc' = "fetch"
  /\ UNCHANGED <<sPhone, sTemplate, sAnswer, storeVars, normVars, raceVars, memVars>>

NextSend == Send \/ SendFetch

SpecSend == InitSend /\ [][NextSend]_vars

\* ---------------------------------------------------------------- C4, C5
P923001234567 == <<"9", "2", "3", "0", "0", "1", "2", "3", "4", "5", "6", "7">>

\* a country code as the amended C4 takes it: empty, or digits that do not
\* begin with 0
WellFormedCC(cc) ==
  cc = <<>> \/ (cc[1] # "0" /\ \A i \in 1..Len(cc) : IsDigit(cc[i]))

\* C4 (as claimed): normalizePhone is idempotent for every raw input and
\* every default country code: normalizing a normalized phone changes nothing.
C4_IdempotentAnyCC == nPc = "twice" => nTwice = nOnce

\* C4 (amended): normalizePhone is idempotent for every raw input when the
\* default country code is empty or a digit string that does not begin
\* with 0; a null result maps to null.
C4_IdempotentWellFormedCC ==
  (nPc = "twice" /\ WellFormedCC(nCC)) => nTwice = nOnce

C4_Witness ==
  /\ nPc = "twice"
  /\ nCC = <<"9", "2">>
  /\ nOnce # Null
  /\ nOnce # nRaw
  /\ nTwice = nOnce

\* C5: with country code "92", normalizePhone("") is null and each of
\* "03001234567", "923001234567", "3001234567" gives "923001234567".
C5_Examples ==
  (nPc # "raw" /\ nCC = <<"9", "2">>) =>
     /\ (nRaw = <<>> => nOnce = Null)
     /\ (nRaw \in ScenarioPhones => nOnce = P923001234567)

C5_Witness ==
  /\ nPc = "once"
  /\ nCC = <<"9", "2">>
  /\ nRaw = <<"0", "3", "0", "0", "1", "2", "3", "4", "5", "6", "7">>
  /\ nOnce = P923001234567


\* ------------------------------------------------------ C1, C2, C6 .. C10
\* the code's names of the spec's status pending_confirmation
CreationStatuses == {"PENDING_COD", "PENDING_CONFIRMATION"}

ButtonEvents == {"whatsapp_button", "meta_button"}
CreatedEvents == {"order_created", "orders_created"}

\* C1 (as claimed): once the stored status of an order has been confirmed or
\* cancelled, a later CONFIRM_ORDER or CANCEL_ORDER button for that order,
\* whatever happened in between, leaves the status as it is, writes no order
\* note and sends exactly one informational template.
C1_SettledButtonOnlyInforms ==
  [][(/\ ev'.kind \in ButtonEvents
      /\ ev'.trigger \in {PAYLOAD_CONFIRM_ORDER, PAYLOAD_CANCEL_ORDER}
      /\ ev'.id \in settled) =>
       /\ StatusOf(orders'[ev'.id]) = StatusOf(orders[ev'.id])
       /\ notes' = <<>>
       /\ Len(out') = 1
       /\ out'[1].tpl \in {TPL_ORDER_ALREADY_PROCESSED, TPL_CALL_US_TEMPLATE}]_vars

\* C2 (as claimed): an order-created event whose phone normalises to a
\* non-null phone results in exactly one order_confirmation dispatch and a
\* stored record of the order in the creation status.
C2_CreatedIsAskedOnce ==
  [][(ev'.kind \in CreatedEvents /\ ev'.phone # Null) =>
       /\ Len(out') = 1
       /\ out'[1].tpl = TPL_ORDER_CONFIRMATION
       /\ ev'.id \in DOMAIN orders'
       /\ StatusOf(orders'[ev'.id]) \in CreationStatuses]_vars

C7_ConfirmButtonConfirms ==
  [][(/\ ev'.kind \in ButtonEvents
      /\ ev'.trigger = PAYLOAD_CONFIRM_ORDER
      /\ ev'.id \in DOMAIN orders
      /\ StatusOf(orders[ev'.id]) \in CreationStatuses
      /\ \A i \in 1..Len(notes') : notes'[i].res = "ok"
      /\ \A i \in 1..Len(out') : out'[i].ok) =>
       /\ StatusOf(orders'[ev'.id]) = "confirmed"
       /\ Len(out') = 1
       /\ out'[1].tpl = TPL_ORDER_CONFIRMED_REPLY
       /\ out'[1].body = <<Field(orders[ev'.id], "customerName", "Customer"),
                           ToString(ev'.id)>>]_vars

\* C8 (as claimed): a courier event with status delivered for an order whose
\* status is shipped, the provider accepting every template, sets the status
\* to delivered and sends order_delivered first and the feedback request
\* second.
C8_DeliveredThenFeedback ==
  [][(/\ ev'.kind = "courier"
      /\ ev'.trigger = "delivered"
      /\ ev'.id \in DOMAIN orders
      /\ StatusOf(orders[ev'.id]) = "shipped"
      /\ \A i \in 1..Len(out') : out'[i].ok) =>
       /\ StatusOf(orders'[ev'.id]) = "delivered"
       /\ Len(out') = 2
       /\ out'[1].tpl = TPL_ORDER_DELIVERED
       /\ out'[2].tpl = TPL_FEEDBACK_REQUEST]_vars

\* the nine statuses of the spec, each with the code's spellings of it
StatusTable ==
  {"pending_confirmation", "PENDING_COD", "PENDING_CONFIRMATION",
   "confirmed", "cancelled", "shipped", "out_for_delivery",
   "delivery_attempted", "attempted", "delivered", "return_initiated",
   "redelivery_scheduled", "redelivery", "rescheduled"}

\* C10 (as claimed): in every reachable state the stored status of every
\* order record is one of the nine statuses of the status table.
C10_StatusInTable ==
  \A o \in DOMAIN orders : Has(orders[o], "status") => orders[o].status \in StatusTable

\* ------------------------------------------------------------- C3, C9
\* C3: of two successive runs of the reminder job over unchanged checkout
\* records, the second sends nothing for a record that the first reminded,
\* and that record's reminded flag is true.
C3_SecondSweepSilent ==
  Len(sweepLog) = 2 =>
    \A k \in sweepLog[1].accepted :
      /\ checkouts[k].reminded
      /\ \A i \in 1..Len(sweepLog[2].sent) : sweepLog[2].sent[i] # k

C3_Witness ==
  /\ ev.kind = "sweep"
  /\ Len(sweepLog) = 2
  /\ \E k \in sweepLog[1].accepted : now - checkouts[k].createdAt > REMINDER_AGE_MS
  /\ \E k \in DOMAIN checkouts : k \notin sweepLog[1].accepted /\ k \in sweepLog[2].accepted

\* the age after which the spec has the job remind a pending order
ORDER_REMINDER_AGE_MS == 6 * HOUR

\* C9 (as claimed): a run of the reminder job at a time more than six hours
\* after the creation of an order that is still in the creation status (and
\* has no reminderSent flag) sends an order_confirmation template.
C9_SweepRemindsPendingOrder ==
  [][(/\ ev'.kind = "sweep"
      /\ \E o \in DOMAIN orders :
           /\ StatusOf(orders[o]) \in CreationStatuses
           /\ ~Has(orders[o], "reminderSent")
           /\ now - orders[o].createdAt > ORDER_REMINDER_AGE_MS) =>
       \E i \in 1..Len(out') : out'[i].tpl = TPL_ORDER_CONFIRMATION]_vars

\* ---------------------------------------------------------- C11 .. C20
\* the status stored for an order reference ("undefined": no record, or a
\* record without a status)
StoredStatus(store, o) ==
  IF o \in DOMAIN store THEN StatusOf(store[o]) ELSE "undefined"

\* the statuses the code writes for the table's "shipped-stage" states
ShippedStage == {"shipped", "attempted", "redelivery", "rescheduled"}

\* the transition table: may event e take an order from status from to
\* status to?  (The reminder tick changes no status and has no row here.)
TransitionTable(from, e, to) ==
  \/ /\ from = "undefined"
     /\ e.kind \in CreatedEvents
     /\ to \in CreationStatuses
  \/ /\ from \in CreationStatuses
     /\ e.kind \in ButtonEvents
     /\ \/ e.trigger = PAYLOAD_CONFIRM_ORDER /\ to = "confirmed"
        \/ e.trigger = PAYLOAD_CANCEL_ORDER /\ to = "cancelled"
  \/ /\ from = "confirmed"
     /\ e.kind = "courier" /\ e.trigger = "shipped"
     /\ to = "shipped"
  \/ /\ from = "shipped"
     /\ e.kind = "courier" /\ e.trigger = "attempted"
     /\ to = "attempted"
  \/ /\ from = "attempted"
     /\ e.kind \in ButtonEvents /\ e.trigger = PAYLOAD_REDELIVER_TOMORROW
     /\ to \in {"redelivery", "rescheduled"}
  \/ /\ from \in ShippedStage
     /\ e.kind = "courier"
     /\ \/ e.trigger = "delivered" /\ to = "delivered"
        \/ e.trigger \in {"rto", "return_initiated"} /\ to = "return_initiated"

\* the events the transition table has rows for
TableEvents == CreatedEvents \cup ButtonEvents \cup {"courier"}

\* C11: every change of an order's stored status made by an order-created,
\* button or courier event follows a row of the transition table
\* (from-state, trigger, to-state), and a courier event whose to-state the
\* order already has is not dispatched again.
C11_StatusFollowsTable ==
  [][/\ \A o \in OrderIds :
          (/\ ev'.kind \in TableEvents
           /\ StoredStatus(orders', o) # StoredStatus(orders, o)) =>
            TransitionTable(StoredStatus(orders, o), ev', StoredStatus(orders', o))
     /\ (/\ ev'.kind = "courier"
         /\ courier_case(ev'.trigger).status = StoredStatus(orders, ev'.id)) =>
           out' = <<>>]_vars

\* the triggers some case of a handler's switch matches
KnownButtons ==
  {PAYLOAD_CONFIRM_ORDER, PAYLOAD_CANCEL_ORDER, PAYLOAD_REDELIVER_TOMORROW}

KnownCourierStatuses ==
  {"shipped", "attempted", "pending", "delivered", "rto", "return_initiated",
   "dispatch_reminder"}

\* C12: an event with a trigger no case matches (an unknown button action,
\* an unknown courier status) leaves the order store as it was.
C12_UnknownTriggerNoChange ==
  [][(\/ ev'.kind \in ButtonEvents /\ ev'.trigger \notin KnownButtons
      \/ ev'.kind = "courier" /\ ev'.trigger \notin KnownCourierStatuses) =>
        orders' = orders]_vars

\* C13: the dispatcher does not throw to its caller when the provider
\* rejects the request with a 4xx/5xx status: the call returns a value.
C13_RejectionIsReturned ==
  (sPc # "idle" /\ Rejected(sAnswer)) => ~sResult.threw

\* C14: a courier event that is a row of the transition table and whose
\* notification the provider rejects still commits the status write: the
\* stored status is the row's to-state afterwards.
C14_FailedDispatchStillCommits ==
  [][(/\ ev'.kind = "courier"
      /\ TransitionTable(StoredStatus(orders, ev'.id), ev',
                         courier_case(ev'.trigger).status)
      /\ \E i \in 1..Len(out') : ~out'[i].ok) =>
        StoredStatus(orders', ev'.id) = courier_case(ev'.trigger).status]_vars

\* C15: a run of the reminder job sets a record's reminded flag only if the
\* provider accepted that record's reminder; a record whose reminder was
\* sent and not accepted keeps reminded = false and qualifies again.
C15_FlagOnlyAfterAccepted ==
  [][ev'.kind = "sweep" =>
       LET run == sweepLog'[Len(sweepLog')]
       IN \A k \in DOMAIN checkouts :
            /\ (~checkouts[k].reminded /\ checkouts'[k].reminded) => k \in run.accepted
            /\ (\E i \in 1..Len(run.sent) : run.sent[i] = k) /\ k \notin run.accepted =>
                 /\ ~checkouts'[k].reminded
                 /\ sweep_qualifies(checkouts'[k], now')]_vars

\* C16: an inbound order event without a resolvable phone, and a button,
\* courier or cancel event whose order reference has no stored record, is
\* dropped: the order store is not written and nothing is dispatched.
C16_UnresolvableIsDropped ==
  [][(/\ ev'.kind \in TableEvents \cup {"order_cancelled"}
      /\ \/ ev'.phone = Null
         \/ ev'.kind \notin CreatedEvents /\ ev'.id \notin DOMAIN orders) =>
        (orders' = orders /\ out' = <<>>)]_vars

\* C17: an event during whose handling the store fails is not acknowledged:
\* the handler answers its sender, and with no 200.
C17_StoreFailureNotAcknowledged ==
  [][("store" \in DOMAIN ev') =>
       /\ resp' # <<>>
       /\ \A i \in 1..Len(resp') : resp'[i] # 200]_vars

\* C18: a confirm or cancel button on a pending order whose order-note
\* update fails still dispatches the reply template of the transition.
C18_NoteFailureDoesNotBlock ==
  [][(/\ ev'.kind \in ButtonEvents
      /\ ev'.trigger \in {PAYLOAD_CONFIRM_ORDER, PAYLOAD_CANCEL_ORDER}
      /\ StoredStatus(orders, ev'.id) \in CreationStatuses
      /\ notes' # <<>>
      /\ notes'[1].res # "ok") =>
        /\ Len(out') = 1
        /\ out'[1].tpl = IF ev'.trigger = PAYLOAD_CONFIRM_ORDER
                         THEN TPL_ORDER_CONFIRMED_REPLY
                         ELSE TPL_ORDER_CANCELLED_REPLY_AUTO]_vars

\* C19: the createdAt of a stored order never changes: no event, a
\* re-delivered order-created event included, gives the record another one.
C19_CreatedAtSetOnce ==
  [][\A o \in DOMAIN orders :
       Has(orders[o], "createdAt") =>
         /\ o \in DOMAIN orders'
         /\ Has(orders'[o], "createdAt")
         /\ orders'[o].createdAt = orders[o].createdAt]_vars

\* C20: a step that changes the status of a stored order sets the record's
\* updatedAt (to the time of the write) in the same step.
C20_StatusWriteSetsUpdatedAt ==
  [][\A o \in DOMAIN orders :
       StoredStatus(orders', o) # StoredStatus(orders, o) =>
         /\ Has(orders'[o], "updatedAt")
         /\ orders'[o].updatedAt = now]_vars

\* ---------------------------------------------------------- C21 .. C30
\* C21: the fulfillment sub-records of an order only grow: a sub-record
\* stored under an order is still stored under it after every event.
C21_FulfillmentsOnlyGrow ==
  [][\A o \in DOMAIN orders :
       \A f \in DOMAIN Fulfillments(orders, o) :
         f \in DOMAIN Fulfillments(orders', o)]_vars

\* C22: once the reminded flag of an abandoned-checkout record is true it
\* stays true, whatever checkout-abandoned events and runs of the job follow.
C22_RemindedStaysTrue ==
  [][\A c \in DOMAIN checkouts :
       checkouts[c].reminded =>
         (c \in DOMAIN checkouts' /\ checkouts'[c].reminded)]_vars

\* C23: the order_confirmation dispatched for an order-created event has
\* exactly seven body parameters, in the order customer name, order
\* reference, product title, quantity, store name, total, currency.
C23_ConfirmationSevenParams ==
  [][\A i \in 1..Len(out') :
       (ev'.kind \in CreatedEvents /\ out'[i].tpl = TPL_ORDER_CONFIRMATION) =>
         /\ Len(out'[i].body) = 7
         /\ out'[i].body[1] \in FirstNames
         /\ out'[i].body[2] \in {ToString(ev'.id), OrderName(ev'.id)}
         /\ out'[i].body[3] = "Widget"
         /\ out'[i].body[4] = "1"
         /\ out'[i].body[5] = "Silken Root"
         /\ out'[i].body[6] = "500"
         /\ out'[i].body[7] = "PKR"]_vars

\* the catalog's number of body parameters of a template (0: not listed)
CatalogParams(tpl) ==
  CASE tpl = TPL_ORDER_CONFIRMATION -> 7
    [] tpl = TPL_ORDER_CONFIRMED_REPLY -> 2
    [] tpl = TPL_ORDER_CANCELLED_REPLY_AUTO -> 1
    [] tpl = TPL_ORDER_DISPATCH_REMINDER -> 3
    [] tpl = TPL_DELIVERY_ATTEMPTED -> 2
    [] tpl = TPL_FAILED_DELIVERY_FOLLOWUP -> 2
    [] tpl = TPL_REDELIVERY_SCHEDULED -> 6
    [] tpl = TPL_RETURN_INITIATED_CUST -> 1
    [] tpl = TPL_ORDER_DELIVERED -> 2
    [] OTHER -> 0

\* C24: every request for a template of the catalog carries the catalog's
\* number of body parameters for that template.
C24_CatalogParamCounts ==
  \A i \in 1..Len(out) :
    CatalogParams(out[i].tpl) # 0 => Len(out[i].body) = CatalogParams(out[i].tpl)

\* the accepted dispatches of template tpl about record id in the history
AcceptedDispatches(tpl, id) ==
  {i \in 1..Len(effects) :
     /\ effects[i].kind = "dispatch"
     /\ effects[i].tpl = tpl
     /\ effects[i].id = id
     /\ effects[i].ok}

\* C25: under every interleaving of two invocations of the reminder job
\* over the same records, a record gets at most one accepted reminder.
C25_ConcurrentSweepsRemindOnce ==
  \A c \in CheckoutIds :
    Cardinality(AcceptedDispatches(TPL_ABANDONED_CHECKOUT, c)) <= 1

\* nothing the runs in flight have called has failed
NoFailedCall ==
  \A i \in 1..Len(effects) :
    /\ effects[i].kind = "dispatch" => effects[i].ok
    /\ effects[i].kind = "note" => effects[i].res # "throw"

\* C26: when the same confirm (or cancel) button for one pending order is
\* handled by two runs that interleave at their awaits, the reply template
\* is dispatched at most once and the order note is written at most once.
C26_TwiceDeliveredButtonOnce ==
  (/\ \A r \in RunIds : runs[r].pc # "idle" /\ runs[r].handler = "button"
   /\ runs[1].trigger = runs[2].trigger
   /\ runs[1].id = runs[2].id
   /\ NoFailedCall) =>
     /\ Cardinality(AcceptedDispatches(TPL_ORDER_CONFIRMED_REPLY, runs[1].id)
                    \cup AcceptedDispatches(TPL_ORDER_CANCELLED_REPLY_AUTO, runs[1].id)) <= 1
     /\ Cardinality({i \in 1..Len(effects) : effects[i].kind = "note"}) <= 1

\* C27: when a button and a courier event for the same order have been
\* handled concurrently (every call accepted), the stored status is the
\* to-state of one of the two: no handler has written back a status that it
\* read before the other's write.
C27_NoLostStatusUpdate ==
  \A b \in RunIds, k \in RunIds :
    (/\ runs[b].pc = "done" /\ runs[b].handler = "button"
     /\ runs[k].pc = "done" /\ runs[k].handler = "courier"
     /\ runs[b].id = runs[k].id
     /\ NoFailedCall) =>
       StoredStatus(orders, runs[b].id) \in
         {whatsapp_case(runs[b].trigger, runs[b].id, <<>>).newStatus,
          courier_case(runs[k].trigger).status} \ {""}

\* C28: the status writes for one order are applied in the order in which
\* their events were received.
C28_WritesInReceiveOrder ==
  \A i, j \in 1..Len(effects) :
    (/\ i < j
     /\ effects[i].kind = "received" /\ effects[j].kind = "received"
     /\ effects[i].id = effects[j].id) =>
       \A wi, wj \in 1..Len(effects) :
         (/\ effects[wi].kind = "write" /\ effects[wi].run = effects[i].run
          /\ effects[wj].kind = "write" /\ effects[wj].run = effects[j].run) =>
            wi < wj

\* C29: in one run of the reminder job, every record that qualifies when the
\* run starts is dispatched, also when the dispatch of another record of the
\* same run failed, and is flagged if its own dispatch was accepted.
C29_FailureDoesNotStopSweep ==
  [][ev'.kind = "sweep" =>
       LET run == sweepLog'[Len(sweepLog')]
       IN \A k \in DOMAIN checkouts :
            sweep_qualifies(checkouts[k], now) =>
              /\ \E i \in 1..Len(run.sent) : run.sent[i] = k
              /\ k \in run.accepted => checkouts'[k].reminded]_vars

\* C30: a button event is dropped only if no key resolves: when an order is
\* stored under the sender's phone, the event is resolved to a stored order,
\* also when the payload's order reference or order name is not found.
C30_ButtonFallsBackToPhone ==
  [][(/\ ev'.kind \in ButtonEvents
      /\ LastByChild(orders, "phone", ev'.phone) # {}) =>
        ev'.id \in DOMAIN orders]_vars

\* ------------------- first generation: orders kept in an in-memory Map
\* (POST /webhook/shopify and POST /webhook/whatsapp of src/unnamed/part_001)
MaxCreated == 3
RecentOrderIds == {1001, 1002}
RecentPhones == {<<"0", "3">>, <<"9", "2", "3">>, <<"9", "2", "4">>, Undefined}

\* mutant of recentOrders_set: a phone that has an entry keeps it
recentOrders_set_keepFirst(map, phone, o) ==
  [p \in DOMAIN map \cup {phone} |-> IF p \in DOMAIN map THEN map[p] ELSE o]

\* recentOrders.set(phone, { orderId, ... })
recentOrders_set(map, phone, o) ==
  [p \in DOMAIN map \cup {phone} |-> IF p = phone THEN o ELSE map[p]]

\* recentOrders.get(from) || recentOrders.get(normalizePhone(from)); 0: undefined
recentOrders_get(map, from) ==
  IF from \in DOMAIN map THEN map[from]
  ELSE IF normalizePhone(from, DEFAULT_COUNTRY_CODE) \in DOMAIN map
       THEN map[normalizePhone(from, DEFAULT_COUNTRY_CODE)]
       ELSE 0

\* orders/create: hmacOk is the outcome of the HMAC test, wa the outcome of
\* the dispatch ("throw": fetch or res.json() throws), noteRes that of the
\* order note. effects keeps the history of the events that named a phone.
ShopifyWebhook(o, rawPhone, hmacOk, wa, noteRes) ==
  LET phone == normalizePhone(rawPhone, DEFAULT_COUNTRY_CODE)
      request == [to |-> phone, tpl |-> TPL_ORDER_CONFIRMATION,
                  body |-> <<"Ali", ToString(o), "Widget", "1", "Silken Root", "500", "PKR">>,
                  button |-> <<>>, ok |-> wa = "ok"]
  IN /\ Len(effects) < MaxCreated
     /\ IF ~hmacOk
        THEN /\ resp' = <<401>>
             /\ out' = <<>>
             /\ notes' = <<>>
             /\ UNCHANGED <<recentOrders, effects>>
        ELSE IF phone = Null
        THEN /\ resp' = <<200>>
             /\ out' = <<>>
             /\ notes' = <<>>
             /\ UNCHANGED <<recentOrders, effects>>
        ELSE /\ recentOrders' = recentOrders_set(recentOrders, phone, o)
             /\ effects' = Append(effects, [kind |-> "created", id |-> o, phone |-> phone])
             /\ out' = <<request>>
             /\ IF wa = "throw"
                THEN notes' = <<>> /\ resp' = <<500>>
                ELSE /\ notes' = <<Note(o, "WhatsApp: sent order_confirmation", noteRes)>>
                     /\ resp' = IF noteRes = "throw" THEN <<500>> ELSE <<200>>
     /\ ev' = Event("shopify", IF hmacOk THEN "" ELSE "unverified", o, phone)
     /\ UNCHANGED <<orders, checkouts, now, settled, sweepLog, normVars, sendVars, runs,
                    incoming>>

\* a button reply: the order is the one mapped to the sender
WhatsAppWebhook(from, payload, noteRes, waOk) ==
  LET orderId == recentOrders_get(recentOrders, from)
      reply == CASE payload = PAYLOAD_CONFIRM_ORDER ->
                      [note |-> "Order Confirmed via WhatsApp", tpl |-> TPL_ORDER_CONFIRMED_REPLY,
                       body |-> <<"Customer", ToString(orderId)>>]
                 [] payload = PAYLOAD_CANCEL_ORDER ->
                      [note |-> "Order Cancelled via WhatsApp", tpl |-> TPL_ORDER_CANCELLED_REPLY_AUTO,
                       body |-> <<ToString(orderId)>>]
                 [] payload = PAYLOAD_REDELIVER_TOMORROW ->
                      [note |-> "Redelivery requested", tpl |-> TPL_REDELIVERY_SCHEDULED,
                       body |-> <<ToString(orderId), "Tomorrow", "10am-6pm", "Courier", "-", "PKR">>]
                 [] OTHER ->
                      [note |-> "Customer needs help", tpl |-> "", body |-> <<>>]
  IN /\ resp' = <<200>>
     /\ IF orderId = 0
        THEN out' = <<>> /\ notes' = <<>>
        ELSE /\ notes' = <<Note(orderId, reply.note, noteRes)>>
             /\ out' = IF noteRes = "throw" \/ reply.tpl = ""
                       THEN <<>>
                       ELSE <<[to |-> from, tpl |-> reply.tpl, body |-> reply.body,
                               button |-> <<>>, ok |-> waOk]>>
     /\ ev' = Event("recent_button", payload, orderId,
                    normalizePhone(from, DEFAULT_COUNTRY_CODE))
     /\ UNCHANGED <<orders, checkouts, now, settled, sweepLog, normVars, sendVars,
                    raceVars, memVars>>

NextRecent ==
  \/ \E o \in RecentOrderIds, ph \in RecentPhones, h \in BOOLEAN,
        wa \in {"ok", "rejected", "throw"}, n \in NoteResults :
       ShopifyWebhook(o, ph, h, wa, n)
  \/ \E from \in RecentPhones \ {Undefined}, a \in ButtonActions,
        n \in NoteResults, w \in BOOLEAN :
       WhatsAppWebhook(from, a, n, w)

SpecRecent == Init /\ [][NextRecent]_vars

\* ------------------------------ POST /webhook of src/unnamed/part_000
\* hasObject: the body has an object field; from: the sender of the first
\* message (Undefined: no message); storeOk: the store accepts the write
MetaWebhook(hasObject, from, text, storeOk) ==
  LET phone == normalizePhone(from, DEFAULT_COUNTRY_CODE)
      stores == hasObject /\ ~Falsy(from)
  IN /\ out' = <<>>
     /\ notes' = <<>>
     /\ resp' = IF ~hasObject THEN <<>>
                ELSE IF stores /\ ~storeOk THEN <<500>>
                ELSE <<200>>
     /\ incoming' = IF stores /\ storeOk
                    THEN dbSet(incoming, now, [from |-> phone, text |-> text])
                    ELSE incoming
     /\ ev' = Event("meta_webhook",
                    IF ~hasObject THEN "no_object"
                    ELSE IF stores /\ ~storeOk THEN "throw" ELSE "",
                    0, phone)
     /\ UNCHANGED <<orders, checkouts, now, settled, sweepLog, normVars, sendVars,
                    raceVars, recentOrders>>

NextMetaWebhook ==
  \/ \E h \in BOOLEAN, from \in {Undefined, <<"9", "2", "3">>, <<"0", "3">>},
        text \in {"null", "hi"}, s \in BOOLEAN :
       MetaWebhook(h, from, text, s)
  \/ \E d \in {1, 6} : Tick(d)

SpecMetaWebhook == Init /\ [][NextMetaWebhook]_vars

\* ------------------------------------------------------------- C31 .. C36
\* the rules of the phone normaliser on the digits d of the input, in their
\* order of precedence
normalize_reference(d, cc) ==
  CASE d = <<>> -> Null
    [] d # <<>> /\ Head(d) = "0" -> cc \o Tail(d)
    [] d # <<>> /\ Head(d) # "0" /\ StartsWith(d, cc) -> d
    [] d # <<>> /\ Head(d) # "0" /\ ~StartsWith(d, cc) /\ Len(d) <= 10 -> cc \o d
    [] OTHER -> d

C32_RequestCarriesCallerParams ==
  [][ev'.kind \in ButtonEvents \cup {"courier", "checkout", "sweep"} =>
       \A i \in 1..Len(out') : out'[i].body # <<>>]_vars

\* C33: a button reply without an order reference is routed to the order of
\* the last order-created event that named the sender's phone, whatever
\* order-created events came before.
C33_ButtonRoutedToLastCreated ==
  [][ev'.kind = "recent_button" =>
       LET mine == {i \in 1..Len(effects) : effects[i].phone = ev'.phone}
       IN mine # {} =>
            /\ ev'.id = effects[Max(mine)].id
            /\ \A i \in 1..Len(notes') : notes'[i].order = effects[Max(mine)].id]_vars

C33_Witness ==
  /\ ev.kind = "recent_button"
  /\ ev.phone = <<"9", "2", "3">>
  /\ Len(effects) = 3
  /\ effects[1].phone = <<"9", "2", "3">> /\ effects[1].id = 1002
  /\ effects[2].phone = <<"9", "2", "3">> /\ effects[2].id = 1001
  /\ effects[3].phone = <<"9", "2", "4">> /\ effects[3].id = 1002
  /\ ev.id = 1001
  /\ Len(notes) = 1 /\ notes[1].order = 1001

\* C34: a run of the reminder job sends a reminder only for a record whose
\* age is greater than the threshold and whose flag is not set: a record
\* whose age equals the threshold is not reminded in that run, and a record
\* with the flag set is not reminded whatever its age.
C34_ThresholdIsStrict ==
  [][ev'.kind = "sweep" =>
       LET run == sweepLog'[Len(sweepLog')]
       IN \A i \in 1..Len(run.sent) :
            /\ now - checkouts[run.sent[i]].createdAt > REMINDER_AGE_MS
            /\ ~checkouts[run.sent[i]].reminded]_vars

C34_Witness ==
  /\ ev.kind = "sweep"
  /\ \E k \in DOMAIN checkouts :
       /\ now - checkouts[k].createdAt = REMINDER_AGE_MS
       /\ ~checkouts[k].reminded
  /\ \E k \in sweepLog[Len(sweepLog)].accepted :
       now - checkouts[k].createdAt > REMINDER_AGE_MS

\* C35: a handler sends at most one HTTP response for the request it
\* handles, also when a step fails after the early acknowledgement.
C35_AnsweredAtMostOnce == Len(resp) <= 1

\* C36: a run of the /webhook handler that ends without an exception has
\* sent a response, also when the request body has no object field.
C36_AlwaysAnswered ==
  [][(ev'.kind = "meta_webhook" /\ ev'.trigger # "throw") => resp' # <<>>]_vars

====
